---- MODULE Spec2Model ----
(***************************************************************************)
(* A model of pvanalytics/system.py: orientation() and its helpers.        *)
(*                                                                         *)
(* Numbers.  Fit scores are rationals [num, den] so that the quotient of   *)
(* line 71 is computed exactly; den = 0 stands for the IEEE results of a   *)
(* division by zero (num = 0: NaN, num < 0: -inf).  Thresholds are in      *)
(* thousandths (0.945 is 945).  Clip percentages are in tenths of a        *)
(* percent (0.5 % is 5, 10 % is 100) and the clip percentage of a call is  *)
(* the rational 1000 * clipped / daytime.  Trim fractions are in           *)
(* thousandths (0.05 is 50).                                               *)
(*                                                                         *)
(* Library calls.  pandas' groupby aggregates (quantile(0.995), median)    *)
(* are inputs of the call: dailyQuantile and dailyMedian.  numpy's polyfit *)
(* and scipy's linregress and curve_fit either raise or return; which one  *)
(* is not decided by system.py, so both are outcomes of a fit.             *)
(*                                                                         *)
(* Inputs.  A call has at least one daytime sample, and the aggregated     *)
(* values of a minute are non-negative integers.                           *)
(***************************************************************************)
EXTENDS Integers, Sequences, FiniteSets

\* ------------------------------------------------------------- bounds
MaxDay == 2
MaxClipped == 22
MaxLen == 3

\* ---------------------------------------------------------- constants
FIXED == "FIXED"
TRACKING == "TRACKING"
UNKNOWN == "UNKNOWN"
Orientation == {FIXED, TRACKING, UNKNOWN}

\* What a call that ends in an exception leaves in `result`.
RAISED == "RAISED"
\* A local that has not been assigned yet.
NONE == "NONE"

Rule(low, high, fixed, tracking, fixed_max) ==
    [low |-> low, high |-> high,
     bounds |-> [fixed |-> fixed, tracking |-> tracking, fixed_max |-> fixed_max]]

PVFLEETS_FIT_PARAMS ==
    << Rule(0, 5, 945, 945, 920),
       Rule(5, 30, 920, 920, 920),
       Rule(30, 40, 900, 920, 920),
       Rule(40, 100, 880, 920, 920) >>

DefaultClipMax == 100
PrimaryTrim == 50
SecondaryTrim == 25
SecondaryMin == 900

\* ------------------------------------------------------------ numbers
Num(v) == [num |-> v, den |-> 1000]
NaN == [num |-> 0, den |-> 0]
NegInf == [num |-> 0 - 1, den |-> 0]

\* score >= t and score < t for a float score and a finite threshold t in
\* thousandths.  Every comparison with NaN is false; -inf is below every t.
Geq(s, t) == IF s.den = 0 THEN FALSE ELSE s.num * 1000 >= t * s.den
Lt(s, t) == IF s.den = 0 THEN s.num < 0 ELSE s.num * 1000 < t * s.den

\* The clip percentage (clipping[daytime].sum() / len(clipping[daytime])) * 100
\* in tenths of a percent, as a rational.
ClipPercent(clipped, daytime) == [num |-> 1000 * clipped, den |-> daytime]
ClipGt(p, c) == p.num > c * p.den
ClipLeq(p, c) == p.num <= c * p.den
ClipGeq(p, c) == p.num >= c * p.den

\* ----------------------------------------------------------- envelope
RECURSIVE SeqMax(_)
SeqMax(s) ==
    IF Len(s) = 1 THEN s[1].value
    ELSE LET m == SeqMax(Tail(s)) IN IF s[1].value > m THEN s[1].value ELSE m

RECURSIVE SeqSum(_)
SeqSum(s) == IF s = <<>> THEN 0 ELSE s[1].value + SeqSum(Tail(s))

RECURSIVE SeqSumSq(_)
SeqSumSq(s) == IF s = <<>> THEN 0 ELSE s[1].value * s[1].value + SeqSumSq(Tail(s))

\* A daily envelope: one entry per minute of the day, in index order.
Daily(values) == [i \in 1..Len(values) |-> [minute |-> i, value |-> values[i]]]

\* data[data > threshold * data.max()]
remove_morning_evening(data, threshold) ==
    IF data = <<>> THEN <<>>
    ELSE LET max == SeqMax(data)
             Keep(e) == e.value * 1000 > threshold * max
         IN SelectSeq(data, Keep)

\* (envelope.index.max() + envelope.index.min()) / 2, doubled to stay an
\* integer; <<>> is the NaN that pandas gives for an empty index.
Middle(envelope) ==
    IF envelope = <<>> THEN <<>>
    ELSE << envelope[1].minute + envelope[Len(envelope)].minute >>

\* --------------------------------------------------------------- fits
\* np.sum((data - np.mean(data))**2) of line 71, times 1000 * len(data):
\* zero exactly when all values of data are equal.
SSTotal(data) == 1000 * (Len(data) * SeqSumSq(data) - SeqSum(data) * SeqSum(data))

\* 1 - (np.sum(residuals**2) / np.sum((data - np.mean(data))**2)) with numpy
\* floats: a zero denominator gives NaN (0 / 0) or -inf (x / 0, x > 0), and
\* no exception.
RSquared(ss_res, ss_tot) == [num |-> ss_tot - ss_res, den |-> ss_tot]

\* The squared correlations polyfit + linregress can return, in thousandths.
QuadScores == {899, 900, 950}
\* The residual sums curve_fit's parameters can leave, in thousandths of the
\* total sum of squares, or zero (the quartic passes through every point).
\* With a total of zero the values are all equal: a quartic with a <= -1e-10
\* (line 66) takes one value at three points at most, so the residual is
\* positive on four or more points, and zero or positive on fewer.
ResidualPermille == {50, 100, 101}
Residuals(data, ss_tot) ==
    IF ss_tot = 0
    THEN {1} \cup (IF Len(data) <= 3 THEN {0} ELSE {})
    ELSE {k * (ss_tot \div 1000) : k \in ResidualPermille} \cup {0}

Raise == [raised |-> TRUE, score |-> NaN]
Return(score) == [raised |-> FALSE, score |-> score]

\* _fit_quadratic: np.polyfit raises on an empty vector; on other data the
\* libraries raise or return a squared correlation.
fit_quadratic(data) ==
    {Raise} \cup (IF data = <<>> THEN {} ELSE {Return(Num(q)) : q \in QuadScores})

\* _fit_quartic: curve_fit raises (an empty vector, no convergence) or returns
\* parameters, whose residuals give the score of line 71.
fit_quartic(data, middle) ==
    {Raise} \cup
    (IF data = <<>> \/ middle = <<>> THEN {}
     ELSE {Return(RSquared(r, SSTotal(data))) : r \in Residuals(data, SSTotal(data))})

\* What the call has attempted: one entry per fit.
FitEntry(model, pass, data, outcome) ==
    [model |-> model, pass |-> pass, points |-> Len(data),
     zero_variance |-> (data # <<>> /\ SSTotal(data) = 0),
     raised |-> outcome.raised]

\* --------------------------------------------------------- thresholds
ZeroBounds == [fixed |-> 0, tracking |-> 0, fixed_max |-> 0]

\* clip[0] <= clip_percent <= clip[1]
InRange(rule, clip_percent) ==
    ClipGeq(clip_percent, rule.low) /\ ClipLeq(clip_percent, rule.high)

RECURSIVE FirstBounds(_, _)
FirstBounds(clip_percent, rules) ==
    IF rules = <<>> THEN ZeroBounds
    ELSE IF InRange(rules[1], clip_percent) THEN rules[1].bounds
    ELSE FirstBounds(clip_percent, Tail(rules))

\* Variant: the last rule containing the percentage wins.
RECURSIVE LastBounds(_, _)
LastBounds(clip_percent, rules) ==
    IF rules = <<>> THEN ZeroBounds
    ELSE IF InRange(rules[Len(rules)], clip_percent) THEN rules[Len(rules)].bounds
    ELSE LastBounds(clip_percent, SubSeq(rules, 1, Len(rules) - 1))

\* Variant: the upper end of a range is exclusive.
RECURSIVE UpperExclusiveBounds(_, _)
UpperExclusiveBounds(clip_percent, rules) ==
    IF rules = <<>> THEN ZeroBounds
    ELSE IF ClipGeq(clip_percent, rules[1].low) /\ ~ClipGeq(clip_percent, rules[1].high)
         THEN rules[1].bounds
    ELSE UpperExclusiveBounds(clip_percent, Tail(rules))

\* for clip, bounds in fit_params.items(): the first rule in range, else zeros
get_bounds(clip_percent, fit_params) == FirstBounds(clip_percent, fit_params)

\* Variant: the tracking test comes before the fixed test.
TrackingFirst(rsq_quadratic, rsq_quartic, clip_percent, max_clip, fit_params) ==
    IF ClipGt(clip_percent, max_clip) THEN UNKNOWN
    ELSE LET b == get_bounds(clip_percent, fit_params) IN
         IF Geq(rsq_quartic, b.tracking) /\ Lt(rsq_quadratic, b.fixed_max)
         THEN TRACKING
         ELSE IF Geq(rsq_quadratic, b.fixed) THEN FIXED
         ELSE UNKNOWN

\* Variant: the fixed test is strict.
FixedStrict(rsq_quadratic, rsq_quartic, clip_percent, max_clip, fit_params) ==
    IF ClipGt(clip_percent, max_clip) THEN UNKNOWN
    ELSE LET b == get_bounds(clip_percent, fit_params) IN
         IF rsq_quadratic.den # 0 /\ rsq_quadratic.num * 1000 > b.fixed * rsq_quadratic.den
         THEN FIXED
         ELSE IF Geq(rsq_quartic, b.tracking) /\ Lt(rsq_quadratic, b.fixed_max)
              THEN TRACKING
         ELSE UNKNOWN

orientation_from_fit(rsq_quadratic, rsq_quartic, clip_percent, max_clip, fit_params) ==
    IF ClipGt(clip_percent, max_clip) THEN UNKNOWN
    ELSE LET b == get_bounds(clip_percent, fit_params) IN
         IF Geq(rsq_quadratic, b.fixed) THEN FIXED
         ELSE IF Geq(rsq_quartic, b.tracking) /\ Lt(rsq_quadratic, b.fixed_max)
              THEN TRACKING
         ELSE UNKNOWN

\* The fit_params argument: None, or a table (a dict, in insertion order).
NoneParams == [none |-> TRUE, rules |-> <<>>]
Table(rules) == [none |-> FALSE, rules |-> rules]

\* fit_params or PVFLEETS_FIT_PARAMS: None and the empty dict are both falsy.
Truthy(arg) == ~arg.none /\ arg.rules # <<>>
ResolveParams(arg) == IF Truthy(arg) THEN arg.rules ELSE PVFLEETS_FIT_PARAMS

\* -------------------------------------------------------------- state
VARIABLES
    nDaytime,            \* len(clipping[daytime]): the daytime samples
    nClipped,            \* clipping[daytime].sum(): the clipped ones among them
    clip_max,            \* argument, tenths of a percent
    fit_median,          \* argument
    fit_params,          \* argument: NoneParams or Table(rules)
    dailyQuantile,       \* _group_by_minute(series[daytime]).quantile(0.995)
    dailyMedian,         \* _group_by_minute(series[daytime]).median()
    params,              \* fit_params after line 133, <<>> before
    envelope,            \* << trimmed primary envelope >>, <<>> before line 134
    middle,              \* Middle(envelope)
    rsquared_quadratic,  \* << score >>, <<>> before line 139
    rsquared_quartic,    \* << score >>, <<>> before line 140
    bounds,              \* << thresholds _orientation_from_fit compared with >>
    system_orientation,  \* the primary decision, NONE before line 141
    median,              \* << trimmed median envelope >>, <<>> while not built
    secondary,           \* << quadratic_median or quartic_median >>
    fits,                \* the fits attempted so far, in order
    result,              \* the returned label, RAISED, or NONE while running
    pc

vars == << nDaytime, nClipped, clip_max, fit_median, fit_params, dailyQuantile,
           dailyMedian, params, envelope, middle, rsquared_quadratic,
           rsquared_quartic, bounds, system_orientation, median, secondary,
           fits, result, pc >>

inputs == << nDaytime, nClipped, clip_max, fit_median, fit_params, dailyQuantile,
             dailyMedian >>

clip_percent == ClipPercent(nClipped, nDaytime)

\* ------------------------------------------------------------- inputs
\* Daytime sample counts: days of 5 samples, or 200 samples (one clipped
\* sample of 200 is 0.5 %).
DaytimeLens == {5 * d : d \in 1..MaxDay} \cup {200}
ClippedCounts(n) == {k \in 0..MaxClipped : k <= n}

\* A caller's table: two rules that overlap on [2 %, 3 %].
CallerTable ==
    << Rule(0, 30, 900, 900, 950), Rule(20, 600, 500, 600, 700) >>

ParamChoices == {NoneParams, Table(<<>>), Table(CallerTable)}

\* Pairs << quantile envelope, median envelope >> of one series.
CallEnvelopes ==
    { << <<1, 4, 4, 1>>, <<1, 4, 4, 1>> >>,
      << <<4, 8, 8, 4>>, <<4, 4, 4, 4>> >>,
      << <<1, 4, 4, 1>>, <<0, 4, 4, 0>> >>,
      << <<1, 2, 4, 2, 1>>, <<0, 0, 4, 0, 0>> >>,
      << <<1, 4, 4, 1>>, <<0, 0, 0, 0>> >>,
      << <<4, 4, 4, 4>>, <<4, 4, 4, 4>> >>,
      << <<2, 40>>, <<1, 40>> >>,
      << <<0, 0>>, <<0, 0>> >> }

EnvValues == {0, 1, 2, 40}
ValueSeqs(n) == [1..n -> EnvValues]

Running ==
    /\ params = <<>>
    /\ envelope = <<>>
    /\ middle = <<>>
    /\ rsquared_quadratic = <<>>
    /\ rsquared_quartic = <<>>
    /\ bounds = <<>>
    /\ system_orientation = NONE
    /\ median = <<>>
    /\ secondary = <<>>
    /\ fits = <<>>
    /\ result = NONE

\* A call of orientation() with its arguments bound.
Init ==
    /\ nDaytime \in DaytimeLens
    /\ nClipped \in ClippedCounts(nDaytime)
    /\ clip_max \in {DefaultClipMax, 600}
    /\ fit_median \in BOOLEAN
    /\ fit_params \in ParamChoices
    /\ \E e \in CallEnvelopes : dailyQuantile = e[1] /\ dailyMedian = e[2]
    /\ Len(dailyQuantile) <= nDaytime
    /\ Running
    /\ pc = "params"

\* ------------------------------------------------------------ actions
\* line 133
Params ==
    /\ pc = "params"
    /\ params' = ResolveParams(fit_params)
    /\ pc' = "envelope"
    /\ UNCHANGED << inputs, envelope, middle, rsquared_quadratic, rsquared_quartic,
                    bounds, system_orientation, median, secondary, fits, result >>

\* lines 134-138
Envelope ==
    /\ pc = "envelope"
    /\ LET e == remove_morning_evening(Daily(dailyQuantile), PrimaryTrim) IN
       /\ envelope' = << e >>
       /\ middle' = Middle(e)
    /\ pc' = "fit_quadratic"
    /\ UNCHANGED << inputs, params, rsquared_quadratic, rsquared_quartic, bounds,
                    system_orientation, median, secondary, fits, result >>

\* An exception leaves orientation() at once.
Raised(entry) ==
    /\ fits' = Append(fits, entry)
    /\ result' = RAISED
    /\ pc' = "done"

\* line 139
FitQuadratic ==
    /\ pc = "fit_quadratic"
    /\ \E o \in fit_quadratic(envelope[1]) :
         LET entry == FitEntry("quadratic", "primary", envelope[1], o) IN
         IF o.raised
         THEN /\ Raised(entry)
              /\ UNCHANGED rsquared_quadratic
         ELSE /\ rsquared_quadratic' = << o.score >>
              /\ fits' = Append(fits, entry)
              /\ pc' = "fit_quartic"
              /\ UNCHANGED result
    /\ UNCHANGED << inputs, params, envelope, middle, rsquared_quartic, bounds,
                    system_orientation, median, secondary >>

\* line 140
FitQuartic ==
    /\ pc = "fit_quartic"
    /\ \E o \in fit_quartic(envelope[1], middle) :
         LET entry == FitEntry("quartic", "primary", envelope[1], o) IN
         IF o.raised
         THEN /\ Raised(entry)
              /\ UNCHANGED rsquared_quartic
         ELSE /\ rsquared_quartic' = << o.score >>
              /\ fits' = Append(fits, entry)
              /\ pc' = "decide"
              /\ UNCHANGED result
    /\ UNCHANGED << inputs, params, envelope, middle, rsquared_quadratic, bounds,
                    system_orientation, median, secondary >>

\* lines 141-146: the call of _orientation_from_fit (lines 74-88)
Decide ==
    /\ pc = "decide"
    /\ system_orientation' =
         orientation_from_fit(rsquared_quadratic[1], rsquared_quartic[1],
                              clip_percent, clip_max, params)
    /\ bounds' = IF ClipGt(clip_percent, clip_max) THEN <<>>
                 ELSE << get_bounds(clip_percent, params) >>
    /\ pc' = "validate"
    /\ UNCHANGED << inputs, params, envelope, middle, rsquared_quadratic,
                    rsquared_quartic, median, secondary, fits, result >>

\* The median envelope of lines 148-151.
MedianEnvelope == remove_morning_evening(Daily(dailyMedian), SecondaryTrim)

\* lines 147, 160: no secondary fit
NoValidation ==
    /\ pc = "validate"
    /\ ~fit_median
    /\ result' = system_orientation
    /\ pc' = "done"
    /\ UNCHANGED << inputs, params, envelope, middle, rsquared_quadratic,
                    rsquared_quartic, bounds, system_orientation, median,
                    secondary, fits >>

\* lines 147-151, 160: the primary decision is UNKNOWN
ValidateUnknown ==
    /\ pc = "validate"
    /\ fit_median
    /\ system_orientation = UNKNOWN
    /\ median' = << MedianEnvelope >>
    /\ result' = system_orientation
    /\ pc' = "done"
    /\ UNCHANGED << inputs, params, envelope, middle, rsquared_quadratic,
                    rsquared_quartic, bounds, system_orientation, secondary, fits >>

\* Variant: the secondary fit of a FIXED decision runs whatever fit_median is.
ValidateFixedAlways ==
    /\ pc = "validate"
    /\ system_orientation = FIXED
    /\ median' = << MedianEnvelope >>
    /\ \E o \in fit_quadratic(MedianEnvelope) :
         LET entry == FitEntry("quadratic", "secondary", MedianEnvelope, o) IN
         IF o.raised
         THEN /\ Raised(entry)
              /\ UNCHANGED secondary
         ELSE /\ secondary' = << o.score >>
              /\ fits' = Append(fits, entry)
              /\ result' = IF Lt(o.score, SecondaryMin) THEN UNKNOWN
                           ELSE system_orientation
              /\ pc' = "done"
    /\ UNCHANGED << inputs, params, envelope, middle, rsquared_quadratic,
                    rsquared_quartic, bounds, system_orientation >>

\* lines 147-155, 160
ValidateFixed ==
    /\ pc = "validate"
    /\ fit_median
    /\ system_orientation = FIXED
    /\ median' = << MedianEnvelope >>
    /\ \E o \in fit_quadratic(MedianEnvelope) :
         LET entry == FitEntry("quadratic", "secondary", MedianEnvelope, o) IN
         IF o.raised
         THEN /\ Raised(entry)
              /\ UNCHANGED secondary
         ELSE /\ secondary' = << o.score >>
              /\ fits' = Append(fits, entry)
              /\ result' = IF Lt(o.score, SecondaryMin) THEN UNKNOWN
                           ELSE system_orientation
              /\ pc' = "done"
    /\ UNCHANGED << inputs, params, envelope, middle, rsquared_quadratic,
                    rsquared_quartic, bounds, system_orientation >>

\* lines 147-151, 156-160
ValidateTracking ==
    /\ pc = "validate"
    /\ fit_median
    /\ system_orientation = TRACKING
    /\ median' = << MedianEnvelope >>
    /\ \E o \in fit_quartic(MedianEnvelope, middle) :
         LET entry == FitEntry("quartic", "secondary", MedianEnvelope, o) IN
         IF o.raised
         THEN /\ Raised(entry)
              /\ UNCHANGED secondary
         ELSE /\ secondary' = << o.score >>
              /\ fits' = Append(fits, entry)
              /\ result' = IF Lt(o.score, SecondaryMin) THEN UNKNOWN
                           ELSE system_orientation
              /\ pc' = "done"
    /\ UNCHANGED << inputs, params, envelope, middle, rsquared_quadratic,
                    rsquared_quartic, bounds, system_orientation >>

Next ==
    \/ Params
    \/ Envelope
    \/ FitQuadratic
    \/ FitQuartic
    \/ Decide
    \/ NoValidation
    \/ ValidateUnknown
    \/ ValidateFixed
    \/ ValidateTracking

Spec == Init /\ [][Next]_vars

\* ----------------------------------------- _orientation_from_fit alone
\* The scores line 141 can be reached with, in thousandths.
ScoreGrid == {0, 879, 880, 899, 900, 919, 920, 944, 945, 1000}
QuarticGrid == {Num(v) : v \in ScoreGrid \cup {0 - 200}} \cup {NaN, NegInf}

FitEnvelope == remove_morning_evening(Daily(<<1, 4, 4, 1>>), PrimaryTrim)

\* orientation() at line 141, both primary fits done.
InitFit ==
    /\ nDaytime \in DaytimeLens
    /\ nClipped \in ClippedCounts(nDaytime)
    /\ clip_max \in {50, DefaultClipMax, 600}
    /\ fit_median = FALSE
    /\ fit_params \in ParamChoices
    /\ dailyQuantile = <<1, 4, 4, 1>>
    /\ dailyMedian = <<1, 4, 4, 1>>
    /\ params = ResolveParams(fit_params)
    /\ envelope = << FitEnvelope >>
    /\ middle = Middle(FitEnvelope)
    /\ \E q \in ScoreGrid : rsquared_quadratic = << Num(q) >>
    /\ \E r \in QuarticGrid : rsquared_quartic = << r >>
    /\ bounds = <<>>
    /\ system_orientation = NONE
    /\ median = <<>>
    /\ secondary = <<>>
    /\ fits = << FitEntry("quadratic", "primary", FitEnvelope, Return(NaN)),
                 FitEntry("quartic", "primary", FitEnvelope, Return(NaN)) >>
    /\ result = NONE
    /\ pc = "decide"

NextFit == Decide

SpecFit == InitFit /\ [][NextFit]_vars

\* -------------------------------------------- _remove_morning_evening alone
\* The envelopes of one series with a positive value in both: the median of
\* a minute is never above its 99.5th percentile.
InitTrim ==
    /\ nDaytime = 200
    /\ nClipped = 0
    /\ clip_max = DefaultClipMax
    /\ fit_median = TRUE
    /\ fit_params = NoneParams
    /\ \E n \in 1..MaxLen :
         /\ dailyQuantile \in ValueSeqs(n)
         /\ dailyMedian \in ValueSeqs(n)
         /\ \A i \in 1..n : dailyMedian[i] <= dailyQuantile[i]
         /\ \E i \in 1..n : dailyMedian[i] > 0
    /\ Running
    /\ pc = "trim"

\* Both trims of orientation(): lines 134-137 and lines 148-151.
Trim ==
    /\ pc = "trim"
    /\ envelope' = << remove_morning_evening(Daily(dailyQuantile), PrimaryTrim) >>
    /\ median' = << MedianEnvelope >>
    /\ pc' = "trimmed"
    /\ UNCHANGED << inputs, params, middle, rsquared_quadratic, rsquared_quartic,
                    bounds, system_orientation, secondary, fits, result >>

NextTrim == Trim

SpecTrim == InitTrim /\ [][NextTrim]_vars

\* ------------------------------------------------------------- claims
Decided == system_orientation # NONE
Excess == 1000 * nClipped > clip_max * nDaytime

\* The rules of the resolved table whose range holds the clip percentage.
Hits ==
    {i \in 1..Len(params) :
        /\ params[i].low * nDaytime <= 1000 * nClipped
        /\ 1000 * nClipped <= params[i].high * nDaytime}
FirstHit == CHOOSE i \in Hits : \A j \in Hits : i <= j
AtPercent(tenths) == 1000 * nClipped = tenths * nDaytime

\* C1: the primary decision is UNKNOWN when the clip percentage exceeds
\* clip_max; else FIXED when the quadratic score reaches the fixed threshold;
\* else TRACKING when the quartic score reaches the tracking threshold and the
\* quadratic score is below fixed_max; else UNKNOWN.  It is always one of the
\* three labels, and FIXED wins when both tests pass.
C1_DecisionOrder ==
    Decided =>
        LET q == rsquared_quadratic[1]
            r == rsquared_quartic[1]
        IN  /\ system_orientation \in Orientation
            /\ Excess => system_orientation = UNKNOWN /\ bounds = <<>>
            /\ ~Excess =>
                 LET t == bounds[1]
                     fixed == Geq(q, t.fixed)
                     tracking == Geq(r, t.tracking) /\ Lt(q, t.fixed_max)
                 IN  /\ fixed => system_orientation = FIXED
                     /\ ~fixed /\ tracking => system_orientation = TRACKING
                     /\ ~fixed /\ ~tracking => system_orientation = UNKNOWN

\* Both tests pass and the decision is FIXED.
C1_FixedOverTracking ==
    /\ Decided
    /\ bounds # <<>>
    /\ Geq(rsquared_quadratic[1], bounds[1].fixed)
    /\ Geq(rsquared_quartic[1], bounds[1].tracking)
    /\ Lt(rsquared_quadratic[1], bounds[1].fixed_max)
    /\ system_orientation = FIXED

\* C2: a call whose clip percentage exceeds clip_max returns UNKNOWN, and no
\* outcome of a fit makes it raise.
C2_ExcessClippingReturnsUnknown ==
    (pc = "done" /\ Excess) => result = UNKNOWN

C4_NoRuleMeansFixed ==
    (Decided /\ Hits = {} /\ Geq(rsquared_quadratic[1], 0)) =>
        system_orientation = FIXED

\* C4 as amended: when no rule holds the clip percentage and the clip
\* percentage does not exceed clip_max, the thresholds are all zero and the
\* primary decision is FIXED for every quadratic score >= 0, whatever the
\* quartic score.
C4_NoRuleWithinClipMaxMeansFixed ==
    (Decided /\ Hits = {} /\ ~Excess) =>
        /\ bounds = << ZeroBounds >>
        /\ Geq(rsquared_quadratic[1], 0) => system_orientation = FIXED

\* 50 % of clipping with the default table and a clip_max of 60 %: FIXED on
\* a quadratic score of 0 and a quartic score that passes the tracking test.
C4_ZeroThresholdsFixed ==
    /\ Decided
    /\ params = PVFLEETS_FIT_PARAMS
    /\ AtPercent(500)
    /\ ~Excess
    /\ rsquared_quadratic[1] = Num(0)
    /\ Geq(rsquared_quartic[1], 0)
    /\ system_orientation = FIXED

SecondaryFits == SelectSeq(fits, LAMBDA f : f.pass = "secondary")

\* C5: with secondary validation, a FIXED primary decision refits the
\* quadratic alone and stays FIXED when that score is >= 0.9, else becomes
\* UNKNOWN; a TRACKING one refits the quartic alone, likewise; an UNKNOWN one
\* runs no secondary fit and stays UNKNOWN.
C5_SecondaryValidation ==
    (pc = "done" /\ fit_median /\ result # RAISED) =>
        /\ result \in {system_orientation, UNKNOWN}
        /\ system_orientation = UNKNOWN => SecondaryFits = <<>>
        /\ system_orientation = FIXED =>
             /\ Len(SecondaryFits) = 1
             /\ SecondaryFits[1].model = "quadratic"
             /\ result = IF Geq(secondary[1], SecondaryMin) THEN FIXED ELSE UNKNOWN
        /\ system_orientation = TRACKING =>
             /\ Len(SecondaryFits) = 1
             /\ SecondaryFits[1].model = "quartic"
             /\ result = IF Geq(secondary[1], SecondaryMin) THEN TRACKING ELSE UNKNOWN

\* C6: with fit_median false the call returns the primary decision as it is:
\* no median envelope is built and no secondary fit is run.
C6_FlagDisablesSecondary ==
    (pc = "done" /\ ~fit_median) =>
        /\ median = <<>>
        /\ secondary = <<>>
        /\ SecondaryFits = <<>>
        /\ result # RAISED => result = system_orientation /\ result \in Orientation
        /\ result = RAISED => ~Decided

\* fit_median is false, the median envelope could not be fitted at all (it is
\* empty after the trim), and the primary decision TRACKING is returned.
C6_ReturnedUnvalidated ==
    /\ pc = "done"
    /\ ~fit_median
    /\ MedianEnvelope = <<>>
    /\ system_orientation = TRACKING
    /\ result = TRACKING

\* A fit that cannot be computed: it raised, it had fewer points than its
\* model needs, or it was a quartic fit of data with zero total variance.
Failed(f) ==
    \/ f.raised
    \/ f.model = "quadratic" /\ f.points < 3
    \/ f.model = "quartic" /\ f.points < 4
    \/ f.model = "quartic" /\ f.zero_variance

\* C7: a call that attempted a fit that cannot be computed ends in an error
\* and returns no label.
C7_FailedFitRaises ==
    (pc = "done" /\ \E i \in 1..Len(fits) : Failed(fits[i])) => result = RAISED

KeepAtLeast(data, threshold) ==
    IF data = <<>> THEN <<>>
    ELSE LET max == SeqMax(data)
             Keep(e) == e.value * 1000 >= threshold * max
         IN SelectSeq(data, Keep)

\* C8: the trimmed envelope is the daily envelope without the entries below
\* threshold x max (0.05 primary, 0.025 secondary): an entry equal to
\* threshold x max stays, and the entries kept are in order and unchanged.
C8_TrimKeepsAtLeastThreshold ==
    pc = "trimmed" =>
        /\ envelope[1] = KeepAtLeast(Daily(dailyQuantile), PrimaryTrim)
        /\ median[1] = KeepAtLeast(Daily(dailyMedian), SecondaryTrim)

C10_CallerTableUsed ==
    pc # "params" =>
        /\ params = IF fit_params.none THEN PVFLEETS_FIT_PARAMS ELSE fit_params.rules
        /\ (bounds # <<>> /\ fit_params = Table(<<>>)) => bounds[1] = ZeroBounds

====
